---- MODULE Spec2Model ----
(***************************************************************************)
(* Model of the game-state engine of src/periodic-table-2048.tsx           *)
(* (component GlucoseMolecule2048): the 4x4 board, the score and the       *)
(* gameOver flag, with initializeGame and move as the operations.          *)
(* Cells are indexed 0..15 row-major as in the source.                     *)
(***************************************************************************)
EXTENDS Integers, Sequences, FiniteSets, TLC

VARIABLES board,      \* useState board: 16 cells, row-major
          score,      \* useState score
          gameOver,   \* useState gameOver
          pc,         \* "mount": constructed, mount effect not yet run; "ready"
          movesLeft,  \* move calls still to be explored
          lastDir,    \* direction of the last move call, "none" before any
          outcome,    \* what the last operation did
          lastMerges  \* number of merges in the last accepted move

vars == <<board, score, gameOver, pc, movesLeft, lastDir, outcome, lastMerges>>

(* ---- bounds ---- *)
MaxMoves == 6     \* move calls explored from construction
RandSteps == 2    \* Math.random() ranges over {0, 1/RandSteps, ..., (RandSteps-1)/RandSteps}
LateMoves == 3    \* move calls explored from a position of a recorded game
LateBack == 3     \* how many keys before its end a recorded game may be picked up
BoardMoves == 1   \* move calls explored from an input board

(* ---- constants of the program ---- *)
null == "null"
ELEMENTS == <<"H", "C", "O">>
Cells == 0..15
Directions == {"ArrowLeft", "ArrowRight", "ArrowUp", "ArrowDown"}
Cell == {"H", "C", "O", null}
OtherKeys == {"Enter"}

emptyBoard == [idx \in Cells |-> null]

(* Array.prototype.indexOf on ELEMENTS: 0-based, -1 when absent *)
indexOf(e) ==
  IF \E i \in 1..Len(ELEMENTS) : ELEMENTS[i] = e
  THEN (CHOOSE i \in 1..Len(ELEMENTS) : ELEMENTS[i] = e) - 1
  ELSE -1

(* mutant: ELEMENTS[currentIndex + 1] read without the bound test *)
getNextElementUnchecked(currentElement) ==
  LET currentIndex == indexOf(currentElement)
  IN IF currentIndex + 2 <= Len(ELEMENTS) THEN ELEMENTS[currentIndex + 2] ELSE "undefined"

getNextElement(currentElement) ==
  LET currentIndex == indexOf(currentElement)
  IN IF currentIndex < Len(ELEMENTS) - 1 THEN ELEMENTS[currentIndex + 2] ELSE null

(* ---- addRandomTile ---- *)
(* mutant: every index counts as an empty spot *)
emptySpotsUnfiltered(currentBoard) == [i \in 1..16 |-> i - 1]

(* indices of the empty cells, ascending, as the reduce builds them *)
emptySpots(currentBoard) ==
  SelectSeq([i \in 1..16 |-> i - 1], LAMBDA idx : currentBoard[idx] = null)

(* mutant: the first empty spot, whatever Math.random() returned *)
addRandomTileAtFirstSpot(currentBoard, num, den) ==
  LET spots == emptySpots(currentBoard)
  IN IF Len(spots) > 0
     THEN [currentBoard EXCEPT ![spots[1]] = ELEMENTS[1]]
     ELSE currentBoard

(* mutant: the copy is written but the board passed in is returned *)
addRandomTileAtReturnsInput(currentBoard, num, den) == currentBoard

(* addRandomTile when Math.random() returns num/den, 0 <= num < den *)
addRandomTileAt(currentBoard, num, den) ==
  LET spots == emptySpots(currentBoard)
  IN IF Len(spots) > 0
     THEN LET randomSpot == spots[((num * Len(spots)) \div den) + 1]
          IN [currentBoard EXCEPT ![randomSpot] = ELEMENTS[1]]
     ELSE currentBoard

(* rnd/RandSteps is the value Math.random() returned *)
addRandomTile(currentBoard, rnd) == addRandomTileAt(currentBoard, rnd, RandSteps)

(* ---- rotateBoard ---- *)
rotateOnce(b) ==
  [idx \in Cells |-> LET i == idx \div 4
                         j == idx % 4
                     IN b[(3 - j) * 4 + i]]

RECURSIVE rotateBoard(_, _)
rotateBoard(b, times) ==
  IF times <= 0 THEN b ELSE rotateBoard(rotateOnce(b), times - 1)

(* ---- moveLeft ---- *)
slice(b, row) == <<b[row * 4], b[row * 4 + 1], b[row * 4 + 2], b[row * 4 + 3]>>

removeAt(s, p) == [k \in 1..(Len(s) - 1) |-> IF k < p THEN s[k] ELSE s[k + 1]]

(* mutant: the index itself, without the + 1 *)
scoreGainIndexOnly(e) == indexOf(e)

scoreGain(e) == indexOf(e) + 1

(* mutant: the loop index is not advanced after a merge, so the new tile is  *)
(* compared with its next neighbour                                          *)
RECURSIVE mergeLoopRemerging(_, _, _, _)
mergeLoopRemerging(currentRow, i, newScore, merges) ==
  IF i < Len(currentRow) - 1
  THEN IF currentRow[i + 1] = currentRow[i + 2]
       THEN LET ne == getNextElement(currentRow[i + 1])
                merged == removeAt([currentRow EXCEPT ![i + 1] = ne], i + 2)
            IN mergeLoopRemerging(merged, i, newScore + scoreGain(ne), merges + 1)
       ELSE mergeLoopRemerging(currentRow, i + 1, newScore, merges)
  ELSE [row |-> currentRow, newScore |-> newScore, merges |-> merges]

(* the merge loop of one row: i is the 0-based loop index, the bound         *)
(* currentRow.length - 1 is re-read on every iteration                        *)
RECURSIVE mergeLoop(_, _, _, _)
mergeLoop(currentRow, i, newScore, merges) ==
  IF i < Len(currentRow) - 1
  THEN IF currentRow[i + 1] = currentRow[i + 2]
       THEN LET ne == getNextElement(currentRow[i + 1])
                merged == removeAt([currentRow EXCEPT ![i + 1] = ne], i + 2)
            IN mergeLoop(merged, i + 1, newScore + scoreGain(ne), merges + 1)
       ELSE mergeLoop(currentRow, i + 1, newScore, merges)
  ELSE [row |-> currentRow, newScore |-> newScore, merges |-> merges]

padRow(currentRow) ==
  [k \in 1..4 |-> IF k <= Len(currentRow) THEN currentRow[k] ELSE null]

(* one iteration of the row loop, on the board built so far *)
moveRow(newBoard, newScore, merges, row) ==
  LET filtered == SelectSeq(slice(newBoard, row), LAMBDA val : val # null)
      originalLength == Len(filtered)
      ml == mergeLoop(filtered, 0, newScore, merges)
      currentRow == padRow(ml.row)
      rowChanged == \/ Len(currentRow) # originalLength
                    \/ \E k \in 1..4 : currentRow[k] # slice(newBoard, row)[k]
  IN [newBoard |-> IF rowChanged
                   THEN [idx \in Cells |-> IF idx \div 4 = row
                                           THEN currentRow[(idx % 4) + 1]
                                           ELSE newBoard[idx]]
                   ELSE newBoard,
      newScore |-> ml.newScore,
      merges |-> ml.merges]

RECURSIVE moveLeftFrom(_, _, _, _)
moveLeftFrom(newBoard, newScore, merges, row) ==
  IF row < 4
  THEN LET r == moveRow(newBoard, newScore, merges, row)
       IN moveLeftFrom(r.newBoard, r.newScore, r.merges, row + 1)
  ELSE [newBoard |-> newBoard, newScore |-> newScore, merges |-> merges]

(* mutant: newScore starts from 0 instead of the committed score *)
moveLeftScoreFromZero(b, sc) == moveLeftFrom(b, 0, 0, 0)

(* moveLeft closes over score; merges counts the executions of the merge branch *)
moveLeft(b, sc) == moveLeftFrom(b, sc, 0, 0)

(* ---- move ---- *)
preTimes(direction) ==
  CASE direction = "ArrowRight" -> 2
    [] direction = "ArrowUp" -> 1
    [] direction = "ArrowDown" -> 3
    [] OTHER -> 0

(* mutant: the board rotated back by the count it was rotated with *)
postTimesAsPreTimes(direction) == preTimes(direction)

postTimes(direction) ==
  CASE direction = "ArrowRight" -> 2
    [] direction = "ArrowUp" -> 3
    [] direction = "ArrowDown" -> 1
    [] OTHER -> 0

movedBoard(b, sc, direction) == moveLeft(rotateBoard(b, preTimes(direction)), sc)

(* mutant: the last alternative of the conditional is movedBoard, not board *)
finalBoardElseMoved(b, direction) ==
  rotateBoard(movedBoard(b, 0, direction).newBoard, postTimes(direction))

finalBoard(b, direction) ==
  IF direction \in Directions
  THEN rotateBoard(movedBoard(b, 0, direction).newBoard, postTimes(direction))
  ELSE b

(* mutant: the arrays compared by reference (finalBoard !== board), which   *)
(* holds of every freshly built array                                        *)
boardChangedByReference(fb, b) == TRUE

boardChanged(fb, b) == \E idx \in Cells : fb[idx] # b[idx]

(* the game-over probe: the moved board of each direction, as the code        *)
(* compares it with boardWithNewTile                                          *)
testBoard(b, dir) == moveLeft(rotateBoard(b, preTimes(dir)), 0).newBoard

availableMoves(boardWithNewTile) ==
  \E dir \in Directions :
     boardChanged(testBoard(boardWithNewTile, dir), boardWithNewTile)

(* mutant: move without its early return *)
blockedNever(go) == FALSE

(* the early return of move *)
blocked(go) == go

(* move as a function of the state it closes over, the key and the value    *)
(* Math.random() returns: the state it commits and what it did              *)
moveResult(b, sc, go, direction, rnd) ==
  IF blocked(go)
  THEN [board |-> b, score |-> sc, gameOver |-> go,
        outcome |-> "ignored", merges |-> 0]
  ELSE LET mv == movedBoard(b, sc, direction)
           fb == finalBoard(b, direction)
       IN IF boardChanged(fb, b)
          THEN LET boardWithNewTile == addRandomTile(fb, rnd)
               IN [board |-> boardWithNewTile,
                   score |-> mv.newScore,
                   gameOver |-> IF ~availableMoves(boardWithNewTile) THEN TRUE ELSE go,
                   outcome |-> "accepted", merges |-> mv.merges]
          ELSE [board |-> b, score |-> sc, gameOver |-> go,
                outcome |-> "rejected", merges |-> 0]

(* what initializeGame commits *)
initialBoard(rnd1, rnd2) == addRandomTile(addRandomTile(emptyBoard, rnd1), rnd2)

Init ==
  /\ board = emptyBoard
  /\ score = 0
  /\ gameOver = FALSE
  /\ pc = "mount"
  /\ movesLeft = MaxMoves
  /\ lastDir = "none"
  /\ outcome = "constructed"
  /\ lastMerges = 0

(* the mount effect, and the Restart button shown while gameOver *)
initializeGame(rnd1, rnd2) ==
  /\ pc = "mount" \/ gameOver
  /\ board' = initialBoard(rnd1, rnd2)
  /\ score' = 0
  /\ gameOver' = FALSE
  /\ pc' = "ready"
  /\ outcome' = "initialized"
  /\ lastMerges' = 0
  /\ UNCHANGED <<movesLeft, lastDir>>

(* handleKeyDown passes the four arrow keys on to move *)
move(direction, rnd) ==
  /\ pc = "ready"
  /\ movesLeft > 0
  /\ movesLeft' = movesLeft - 1
  /\ lastDir' = direction
  /\ pc' = pc
  /\ \E r \in {moveResult(board, score, gameOver, direction, rnd)} :
        /\ board' = r.board
        /\ score' = r.score
        /\ gameOver' = r.gameOver
        /\ outcome' = r.outcome
        /\ lastMerges' = r.merges

(* handleKeyDown on a key that is not an arrow key: move is not called *)
keyIgnored(key) ==
  /\ pc = "ready"
  /\ key \notin Directions
  /\ lastDir' = key
  /\ outcome' = "unhandled"
  /\ lastMerges' = 0
  /\ UNCHANGED <<board, score, gameOver, pc, movesLeft>>

Play == \E direction \in Directions, rnd \in 0..(RandSteps - 1) : move(direction, rnd)

Start == \E rnd1, rnd2 \in 0..(RandSteps - 1) : initializeGame(rnd1, rnd2)

OtherKey == \E key \in OtherKeys : keyIgnored(key)

Next == Start \/ Play \/ OtherKey

Spec == Init /\ [][Next]_vars

(* ---- positions of recorded games ---- *)
(* two games played from construction, Math.random() returning 0 throughout *)
L == "ArrowLeft"
R == "ArrowRight"
U == "ArrowUp"
D == "ArrowDown"
GameToOO == <<L, R, L, R, R, R, L, L>>
GameToFull == <<L, R, L, U, R, U, U, U, D, R, U, R, R, U, L, L, R, L, L, L, R, L, R, U>>
RecordedGames == {GameToOO, GameToFull}

RECURSIVE replay(_, _)
replay(keys, n) ==
  IF n = 0
  THEN [board |-> initialBoard(0, 0), score |-> 0, gameOver |-> FALSE,
        outcome |-> "initialized", merges |-> 0]
  ELSE CHOOSE r \in {moveResult(p.board, p.score, p.gameOver, keys[n], 0) :
                        p \in {replay(keys, n - 1)}} : TRUE

LateInit ==
  \E keys \in RecordedGames, back \in 1..LateBack :
     LET n == Len(keys) - back
         p == replay(keys, n)
     IN /\ board = p.board
        /\ score = p.score
        /\ gameOver = p.gameOver
        /\ pc = "ready"
        /\ movesLeft = LateMoves
        /\ lastDir = "none"
        /\ outcome = "recorded"
        /\ lastMerges = 0

SpecLate == LateInit /\ [][Play]_vars

(* games from construction together with the recorded positions *)
SpecGames == (Init \/ LateInit) /\ [][Next]_vars

(* ---- move and initializeGame on input states ---- *)
Rows == [1..4 -> Cell]
rowBoard(w, row) == [idx \in Cells |-> IF idx \div 4 = row THEN w[(idx % 4) + 1] ELSE null]
sameRows(w) == [idx \in Cells |-> w[(idx % 4) + 1]]
InputBoards == {rowBoard(w, row) : w \in Rows, row \in {0, 3}} \cup {sameRows(w) : w \in Rows}
InputScores == {0, 7}

BoardsInit ==
  /\ board \in InputBoards
  /\ score \in InputScores
  /\ gameOver \in BOOLEAN
  /\ pc = "ready"
  /\ movesLeft = BoardMoves
  /\ lastDir = "none"
  /\ outcome = "given"
  /\ lastMerges = 0

SpecBoards == BoardsInit /\ [][Next]_vars

(* ---- vocabulary of the properties ---- *)
tiles(b) == Cardinality({idx \in Cells : b[idx] # null})
count(b, e) == Cardinality({idx \in Cells : b[idx] = e})
countIn(s, e) == Cardinality({k \in 1..Len(s) : s[k] = e})
compact(s) == SelectSeq(s, LAMBDA val : val # null)
hasPair(s, e) == \E k \in 1..(Len(s) - 1) : s[k] = e /\ s[k + 1] = e
isFull(b) == \A idx \in Cells : b[idx] # null
moveStep == movesLeft' # movesLeft

(* no direction, played as rotate, moveLeft, rotate back, changes b *)
stuck(b) == \A d \in Directions : finalBoard(b, d) = b

(* no two equal tiles next to each other in a row or in a column *)
noEqualNeighbours(b) ==
  /\ \A row \in 0..3, col \in 0..2 :
        b[row * 4 + col] = null \/ b[row * 4 + col] # b[row * 4 + col + 1]
  /\ \A row \in 0..2, col \in 0..3 :
        b[row * 4 + col] = null \/ b[row * 4 + col] # b[(row + 1) * 4 + col]

(* the cells of the lines of the board, each read from the edge the direction *)
(* names: column 0 for left, column 3 for right, row 0 for up, row 3 for down *)
lineCell(direction, line, k) ==
  CASE direction = "ArrowLeft" -> line * 4 + k
    [] direction = "ArrowRight" -> line * 4 + (3 - k)
    [] direction = "ArrowUp" -> k * 4 + line
    [] direction = "ArrowDown" -> (3 - k) * 4 + line

lineOf(idx, direction) ==
  CHOOSE p \in (0..3) \X (0..3) : lineCell(direction, p[1], p[2]) = idx

slideLine(s) == padRow(mergeLoop(compact(s), 0, 0, 0).row)

referenceSlide(b, direction) ==
  [idx \in Cells |->
     LET p == lineOf(idx, direction)
         s == [k \in 1..4 |-> b[lineCell(direction, p[1], k - 1)]]
     IN slideLine(s)[p[2] + 1]]

(* ---- C1 ---- *)
(* C1: after every accepted move, gameOver is true if and only if none of   *)
(* the four directions, played on the committed (post-spawn) board as        *)
(* rotate, moveLeft, rotate back, changes that board.                        *)
C1_GameOverIffStuck ==
  outcome = "accepted" => (gameOver <=> stuck(board))

(* ---- C2 ---- *)
(* C2: two adjacent equal O tiles of a compacted row never merge: moveLeft   *)
(* keeps every O tile of such a row, and a row whose only equal neighbours   *)
(* are O tiles adds nothing to the score.                                    *)
C2_OPairKept ==
  \A row \in 0..3 :
     LET cur == compact(slice(board, row))
         ml == moveLeft(board, 0)
         res == slice(ml.newBoard, row)
     IN hasPair(cur, "O") =>
          /\ countIn(res, "O") >= countIn(cur, "O")
          /\ (~hasPair(cur, "H") /\ ~hasPair(cur, "C")) =>
                moveLeft(rowBoard(slice(board, row), row), 0).newScore = 0

(* ---- C3 ---- *)
(* C3: for every board and direction the pre-spawn result of move is the     *)
(* slide toward the edge the direction names: left toward column 0, right    *)
(* toward column 3, up toward row 0, down toward row 3.                      *)
C3_MoveSlidesTowardNamedEdge ==
  \A d \in Directions : finalBoard(board, d) = referenceSlide(board, d)

(* ---- C4 ---- *)
(* C4: a move whose final board equals the pre-move board cell by cell is a  *)
(* no-op: board, score and gameOver keep their values and no tile is spawned. *)
C4_IneffectiveMoveIsNoOp ==
  [][(moveStep /\ finalBoard(board, lastDir') = board)
       => (board' = board /\ score' = score /\ gameOver' = gameOver)]_vars

C4_Witness ==
  /\ outcome = "rejected"
  /\ ~gameOver
  /\ finalBoard(board, lastDir) = board
  /\ tiles(board) >= 2

(* ---- C5 ---- *)
(* C5: a move that changes the board leaves as many non-empty cells as there *)
(* were before, minus the merges of the move, plus one for the spawned tile  *)
(* (the spawn being skipped only when the moved board has no empty cell).    *)
C5_TilesConservedMinusMerges ==
  [][(moveStep /\ board' # board)
       => tiles(board') = tiles(board) - lastMerges'
                          + (IF isFull(finalBoard(board, lastDir')) THEN 0 ELSE 1)]_vars

(* ---- C6 ---- *)
(* C6: when the committed board is full and no two equal tiles are next to   *)
(* each other in a row or a column, the next move attempt, in any direction, *)
(* leaves gameOver true.                                                     *)
C6_FullStuckBoardEndsGame ==
  [][(moveStep /\ isFull(board) /\ noEqualNeighbours(board)) => gameOver']_vars

(* ---- C7 ---- *)
(* C7: over moves the score never decreases and is never negative, and a     *)
(* move increases it only if at least one merge happened in that move.       *)
C7_ScoreMonotone ==
  [][/\ score >= 0
     /\ score' >= 0
     /\ moveStep => /\ score' >= score
                    /\ score' > score => /\ lastMerges' >= 1
                                         /\ tiles(board') <= tiles(board)]_vars

C7_Witness ==
  /\ outcome = "accepted"
  /\ lastMerges = 0
  /\ score > 0

(* ---- C8 ---- *)
(* C8: an accepted move commits the previous score plus 2 for every H+H      *)
(* merge (result C) and 3 for every C+C merge (result O) of the move; the    *)
(* numbers of those merges are read off the tile counts before and after.    *)
(* A board whose only tiles are [H,H,empty,empty] in row 0, moved left,      *)
(* gets C in cell 0 and 2 more points.                                       *)
C8_ScoreAddsMergeValues ==
  [][(moveStep /\ outcome' = "accepted")
       => LET hh == (count(board, "H") - (count(board', "H") - 1)) \div 2
              cc == (count(board, "C") + hh - count(board', "C")) \div 2
          IN /\ score' = score + 2 * hh + 3 * cc
             /\ (board = rowBoard(<<"H", "H", null, null>>, 0) /\ lastDir' = "ArrowLeft")
                   => /\ score' = score + 2
                      /\ board'[0] = "C"
                      /\ tiles(board') = 2]_vars

C8_Witness ==
  /\ outcome = "accepted"
  /\ lastMerges >= 1
  /\ score >= 5
  /\ \E idx \in Cells : board[idx] = "O"

(* ---- C9 ---- *)
(* C9: once gameOver is true a move in any direction leaves board, score and *)
(* gameOver as they are, and gameOver turns false again only by              *)
(* initializeGame (restart).                                                 *)
C9_GameOverAbsorbing ==
  [][gameOver => /\ moveStep => (board' = board /\ score' = score /\ gameOver')
                 /\ ~gameOver' => (~moveStep /\ outcome' = "initialized")]_vars

C9_Witness ==
  /\ gameOver
  /\ outcome = "ignored"
  /\ lastDir \in Directions
  /\ ~stuck(board)

(* ---- C10 ---- *)
(* C10: initializeGame (restart) leaves score 0, gameOver false and a board  *)
(* with H in exactly two cells and the other 14 cells empty, whatever the    *)
(* state before and the random choices.                                      *)
C10_InitializeResets ==
  outcome = "initialized" =>
     /\ score = 0
     /\ ~gameOver
     /\ count(board, "H") = 2
     /\ count(board, null) = 14

C10_Witness ==
  /\ outcome = "initialized"
  /\ pc = "ready"
  /\ tiles(board) = 2

(* ---- C11 ---- *)
(* C11: rotating by 1 and then by 3, or by 4, gives the board back; rotating *)
(* by m and then by n is rotating by (m + n) mod 4; and for each direction   *)
(* the rotation before moveLeft and the rotation after it compose to the     *)
(* identity.                                                                 *)
C11_RotationsCompose ==
  /\ rotateBoard(rotateBoard(board, 1), 3) = board
  /\ rotateBoard(board, 4) = board
  /\ \A m \in 0..3 :
        \A rotated \in {rotateBoard(board, m)} :
           \A n \in 0..3 : rotateBoard(rotated, n) = rotateBoard(board, (m + n) % 4)
  /\ \A d \in Directions :
        rotateBoard(rotateBoard(board, preTimes(d)), postTimes(d)) = board

C11_Witness ==
  /\ tiles(board) >= 3
  /\ rotateBoard(board, 1) # board
  /\ rotateBoard(board, 2) # board
  /\ rotateBoard(board, 1) # rotateBoard(board, 3)
  /\ outcome = "accepted"

(* ---- C12 ---- *)
(* C12: in every state the board has exactly the 16 cells 0..15 and every    *)
(* cell holds H, C, O or empty.                                              *)
C12_BoardWellFormed ==
  /\ DOMAIN board = Cells
  /\ Cardinality(DOMAIN board) = 16
  /\ \A idx \in DOMAIN board : board[idx] \in {"H", "C", "O", null}

C12_Witness ==
  /\ outcome = "accepted"
  /\ lastMerges >= 2
  /\ count(board, "H") >= 1
  /\ count(board, "C") >= 1
  /\ \E row \in 0..3, col \in 0..2 :
        board[row * 4 + col] = null /\ board[row * 4 + col + 1] \in {"C", "O"}

(* ---- C13 ---- *)
(* C13: a move with a direction that is none of the four arrow keys changes  *)
(* neither board nor score nor gameOver, whatever Math.random() returns, and *)
(* a key that is not an arrow key leaves them unchanged as well.             *)
C13_UnknownDirectionIsNoOp ==
  [][/\ \A key \in OtherKeys, rnd \in 0..(RandSteps - 1) :
           LET r == moveResult(board, score, gameOver, key, rnd)
           IN r.board = board /\ r.score = score /\ r.gameOver = gameOver
     /\ lastDir' \notin (Directions \cup {"none"})
           => (board' = board /\ score' = score /\ gameOver' = gameOver)]_vars

C13_Witness ==
  /\ outcome = "unhandled"
  /\ lastDir \in OtherKeys
  /\ ~gameOver
  /\ tiles(board) >= 2
  /\ finalBoard(board, "ArrowLeft") # board

(* ---- C14 ---- *)
(* the single pass over a compacted row: the leftmost equal pair becomes one *)
(* tile and the pass goes on behind it, so no tile merges twice              *)
RECURSIVE singlePass(_)
singlePass(s) ==
  IF Len(s) < 2 THEN s
  ELSE IF s[1] = s[2]
       THEN <<getNextElement(s[1])>> \o singlePass(SubSeq(s, 3, Len(s)))
       ELSE <<s[1]>> \o singlePass(SubSeq(s, 2, Len(s)))

(* the score of the single pass: 2 for a new C, 3 for a new O *)
RECURSIVE singlePassScore(_)
singlePassScore(s) ==
  IF Len(s) < 2 THEN 0
  ELSE IF s[1] = s[2]
       THEN (CASE s[1] = "H" -> 2 [] s[1] = "C" -> 3 [] OTHER -> 0)
            + singlePassScore(SubSeq(s, 3, Len(s)))
       ELSE singlePassScore(SubSeq(s, 2, Len(s)))

(* C14: moveLeft merges every row in one left-to-right pass in which the     *)
(* leftmost equal pair merges first, each tile takes part in at most one     *)
(* merge and a tile made by a merge does not merge again: [H,H,H,empty]      *)
(* becomes [C,H,empty,empty] with 2 points, [H,H,H,H] becomes                *)
(* [C,C,empty,empty], never [O,...].                                         *)
C14_SinglePassMerge ==
  \A row \in 0..3 :
     LET w == slice(board, row)
         ml == moveLeft(rowBoard(w, row), 0)
         res == slice(moveLeft(board, 0).newBoard, row)
     IN /\ res = padRow(singlePass(compact(w)))
        /\ ml.newScore = singlePassScore(compact(w))
        /\ 2 * ml.merges <= Len(compact(w))
        /\ w = <<"H", "H", "H", null>> => (res = <<"C", "H", null, null>> /\ ml.newScore = 2)
        /\ w = <<"H", "H", "H", "H">> => (res = <<"C", "C", null, null>> /\ ml.newScore = 4)

C14_Witness ==
  /\ outcome = "accepted"
  /\ lastDir = "ArrowLeft"
  /\ lastMerges = 2
  /\ board[0] = "C"
  /\ board[1] = "C"
  /\ count(board, "C") = 2
  /\ tiles(board) = 3

(* ---- C15 ---- *)
(* C15: every row of moveLeft's result is left-packed, no empty cell having  *)
(* a non-empty cell to its right, and the tiles of a row without a merge     *)
(* keep their order.                                                         *)
C15_RowsLeftPacked ==
  \A row \in 0..3 :
     LET w == slice(board, row)
         res == slice(moveLeft(board, 0).newBoard, row)
     IN /\ \A k \in 1..3 : res[k] = null => res[k + 1] = null
        /\ (\A k \in 1..(Len(compact(w)) - 1) : compact(w)[k] # compact(w)[k + 1])
              => compact(res) = compact(w)

(* ---- C16 ---- *)
(* the cells in which two boards differ *)
diffCells(a, b) == {idx \in Cells : a[idx] # b[idx]}

(* Math.random() over the sixteenths 0/16 .. 15/16, fine enough to tell the  *)
(* empty spots of a 16-cell board apart                                      *)
Sixteenths == 0..(Cardinality(Cells) - 1)

(* C16: addRandomTile changes at most one cell: on a board with an empty     *)
(* cell the result differs in exactly one cell, which was empty and now      *)
(* holds H, and every empty cell is the choice for some value of             *)
(* Math.random(); on a board without an empty cell the result is the input.  *)
C16_AddRandomTileOneCell ==
  /\ \A results \in {{addRandomTileAt(board, num, Cardinality(Cells)) : num \in Sixteenths}} :
        /\ \A res \in results :
              IF isFull(board)
              THEN res = board
              ELSE \E idx \in Cells : /\ diffCells(res, board) = {idx}
                                      /\ board[idx] = null
                                      /\ res[idx] = "H"
        /\ \A idx \in Cells :
              board[idx] = null => [board EXCEPT ![idx] = "H"] \in results
  /\ \A rnd \in 0..(RandSteps - 1) :
        Cardinality(diffCells(addRandomTile(board, rnd), board)) <= 1

C16_Witness ==
  /\ outcome = "accepted"
  /\ Len(emptySpots(board)) >= 2
  /\ tiles(board) >= 3
  /\ addRandomTileAt(board, 0, Cardinality(Cells))
        # addRandomTileAt(board, Cardinality(Cells) - 1, Cardinality(Cells))

(* ---- C18 ---- *)
(* C18: an accepted move spawns exactly one H: the moved board has an empty  *)
(* cell, the committed board is the moved board with H in one cell that was  *)
(* empty, and after initialization the committed board is never empty.       *)
C18_AcceptedMoveSpawnsOne ==
  [][/\ (moveStep /\ outcome' = "accepted")
           => \A fb \in {finalBoard(board, lastDir')} :
                 /\ ~isFull(fb)
                 /\ Cardinality(diffCells(board', fb)) = 1
                 /\ \A idx \in diffCells(board', fb) : fb[idx] = null /\ board'[idx] = "H"
     /\ (moveStep /\ board' # board) => outcome' = "accepted"
     /\ pc' = "ready" => tiles(board') >= 1]_vars

C18_Witness ==
  /\ outcome = "accepted"
  /\ lastDir \in Directions
  /\ isFull(board)

TypeOK ==
  /\ board \in [Cells -> Cell]
  /\ score \in Nat
  /\ gameOver \in BOOLEAN
====
